---- MODULE Spec2Model ----
(***************************************************************************)
(* Model of the simulation core of Inky-developer/tanks: the tile grid     *)
(* (src/world.rs), the collision math (src/math.rs, src/physics.rs) and    *)
(* the fixed-tick physics pipeline (src/physics.rs, src/debug_plugin.rs).  *)
(*                                                                         *)
(* Reals (f32) are fixed-point integers counting 1/FP of a unit.  Every    *)
(* value the model feeds in is a dyadic rational that f32 represents       *)
(* exactly, and every operation applied to them is exact in f32 as well,   *)
(* so no rounding is modelled.  Vector lengths are compared by their       *)
(* squares (sqrt is monotone).  `as isize` is truncation toward zero; its  *)
(* saturation at the ends of isize is outside the bounds of the model.     *)
(***************************************************************************)
EXTENDS Integers, Sequences, FiniteSets, TLC

VARIABLES
    world,            \* GameWorld(World): [width, height, data]
    panicked,         \* an assert! (or a Vec index check) has aborted the program
    call,             \* the function last called on the core: name, arguments,
                      \* the grid before it, and what it returned
    transform,        \* per entity, Transform: [translation, scale] (x and y)
    rigidbody,        \* per entity, Rigidbody.motion
    world_transform,  \* per entity, WorldTransform: [translation, tile_position]
    intersection,     \* per entity, Intersection.correction
    sched,            \* the schedule that runs: Update, FixedUpdate, FixedPostUpdate
    stage,            \* FixedPostUpdate: the group of the chain that runs (0: none)
    ran,              \* FixedPostUpdate: the systems of that group that have run
    visited,          \* FixedPostUpdate: the (system, entity) pairs a system
                      \* that is still iterating its query has dealt with
    tick,             \* the number of fixed ticks completed
    computed_in,      \* history: per entity, the tick whose collide_with_world
                      \* wrote the stored correction (-1: none yet)
    applied,          \* history: per entity, the last correction added to the
                      \* position: the tick that computed it and the tick that
                      \* added it (-1: none yet)
    life,             \* history: per entity, of the correction stored in its
                      \* Intersection: stored (collide_with_world has written
                      \* one that has not been reset since), writes (how often
                      \* collide_with_world wrote in the tick computed_in),
                      \* adds (how often the stored one was added to the
                      \* position), dropped (one was erased or overwritten
                      \* before it was added)
    moved             \* history: per entity, the tick in which apply_motion
                      \* last ran (-1: never) and the position it left

gridVars == <<world, panicked, call>>
physVars == <<transform, rigidbody, world_transform, intersection, sched,
              stage, ran, visited, tick, computed_in, applied, life, moved>>
vars == <<world, panicked, call, transform, rigidbody, world_transform,
          intersection, sched, stage, ran, visited, tick, computed_in,
          applied, life, moved>>

-----------------------------------------------------------------------------
(* Bounds of the model *)

\* Largest grid side World::new is called with.
MaxDim == 4
\* Largest number of cells of a grid (width * height).
MaxCells == 6
\* Fixed ticks a behaviour of the physics pipeline runs.
MaxTicks == 3
\* Side of the square terrains the collision functions are called on.
TerrainSide == 2

-----------------------------------------------------------------------------
(* Fixed point *)

TILE_SIZE == 8

\* Units per 1.0.  A multiple of TILE_SIZE, so that dividing a render-space
\* position by TILE_SIZE is exact, as it is in f32.
FP == 4 * TILE_SIZE

Half == FP \div 2

Abs(n) == IF n < 0 THEN -n ELSE n

\* `v as isize` of an f32 v: truncation toward zero.
AsIsize(n) == IF n >= 0 THEN n \div FP ELSE -((-n) \div FP)

\* `i as f32` of an integer i.
AsF32(i) == i * FP

-----------------------------------------------------------------------------
(* world.rs: WorldTile, World *)

Air == "Air"
Dirt == "Dirt"
WorldTile == {Air, Dirt}

\* #[default] Air
DefaultTile == Air

IsNotAir(tile) == tile # Air

HasCollider(tile) == IsNotAir(tile)

\* The storage allocated with width * width entries (mutant).
NewByWidth(width, height) ==
    [width |-> width, height |-> height,
     data |-> [i \in 0 .. (width * width - 1) |-> DefaultTile]]

\* World::new: vec![WorldTile::default(); width * height]
New(width, height) ==
    [width |-> width, height |-> height,
     data |-> [i \in 0 .. (width * height - 1) |-> DefaultTile]]

\* The asserts of coords_to_index removed on the x side (mutant).
CoordsToIndexNoXAssert(w, x, y) ==
    IF y < w.height /\ y >= 0
    THEN [ok |-> TRUE, idx |-> x + y * w.width]
    ELSE [ok |-> FALSE, idx |-> 0]

\* Row stride taken from the height instead of the width (mutant).
CoordsToIndexByHeight(w, x, y) ==
    IF x < w.width /\ x >= 0 /\ y < w.height /\ y >= 0
    THEN [ok |-> TRUE, idx |-> x + y * w.height]
    ELSE [ok |-> FALSE, idx |-> 0]

\* World::coords_to_index: ok = FALSE is a failed assert!.
CoordsToIndex(w, x, y) ==
    IF x < w.width /\ x >= 0 /\ y < w.height /\ y >= 0
    THEN [ok |-> TRUE, idx |-> x + y * w.width]
    ELSE [ok |-> FALSE, idx |-> 0]

\* World::set.  self.data[idx] is bounds-checked by Vec.
Set(w, x, y, tile) ==
    LET r == CoordsToIndex(w, x, y)
    IN  IF r.ok /\ r.idx \in DOMAIN w.data
        THEN [ok |-> TRUE, world |-> [w EXCEPT !.data[r.idx] = tile]]
        ELSE [ok |-> FALSE, world |-> w]

\* The early return of get (mutant: every coordinate goes to coords_to_index).
GetInRangeAlways(w, x, y) == TRUE

\* World::get, line 106 negated: the coordinates are inside the grid.
GetInRange(w, x, y) == ~(x < 0 \/ x >= w.width \/ y < 0 \/ y >= w.height)

\* World::get
Get(w, x, y) ==
    IF ~GetInRange(w, x, y)
    THEN [ok |-> TRUE, tile |-> DefaultTile]
    ELSE LET r == CoordsToIndex(w, x, y)
         IN  IF r.ok /\ r.idx \in DOMAIN w.data
             THEN [ok |-> TRUE, tile |-> w.data[r.idx]]
             ELSE [ok |-> FALSE, tile |-> DefaultTile]

\* World::get_rendered: neighbours in the order top, left, bottom, right.
\* (get cannot fail on these: it is total, see Get.)
GetRendered(w, x, y) ==
    [pos |-> <<x, y>>,
     tile |-> Get(w, x, y).tile,
     neighbors |-> <<Get(w, x, y + 1).tile, Get(w, x - 1, y).tile,
                     Get(w, x, y - 1).tile, Get(w, x + 1, y).tile>>]

\* Rect::width / Rect::height of a bevy Rect [min, max].
RectWidth(rect) == rect.max[1] - rect.min[1]
RectHeight(rect) == rect.max[2] - rect.min[2]

\* The nested ranges of _get_rendered_in_rect in iteration order:
\* (left_x..(left_x + width)).flat_map(|x| (bottom_y..(bottom_y + height)) ...).
\* An a..b range with b <= a is empty.
BoxCells(left_x, bottom_y, width, height) ==
    IF width <= 0 \/ height <= 0
    THEN <<>>
    ELSE [k \in 1 .. (width * height) |->
            <<left_x + ((k - 1) \div height), bottom_y + ((k - 1) % height)>>]

\* The filter of _get_rendered_in_rect dropped (mutant).
RectCellKeptAlways(w, cell) == TRUE

\* _get_rendered_in_rect, line 141 negated: the cell is yielded.
RectCellKept(w, cell) ==
    ~(cell[2] < 0 \/ cell[2] >= w.height \/ cell[1] < 0 \/ cell[1] >= w.width)

\* World::_get_rendered_in_rect: the yielded tiles, in order.
GetRenderedInRectInner(w, left_x, bottom_y, width, height) ==
    LET kept == SelectSeq(BoxCells(left_x, bottom_y, width, height),
                          LAMBDA c : RectCellKept(w, c))
    IN  [i \in 1 .. Len(kept) |-> GetRendered(w, kept[i][1], kept[i][2])]

\* World::get_rendered_in_rect
GetRenderedInRect(w, rect) ==
    LET left_x == AsIsize(rect.min[1] - FP)
        bottom_y == AsIsize(rect.min[2] - FP)
        width == AsIsize(RectWidth(rect) + 2 * FP)
        height == AsIsize(RectHeight(rect) + 2 * FP)
    IN  GetRenderedInRectInner(w, left_x, bottom_y, width, height)

\* fill_radius: let radius_int = (radius + 0.5) as isize
RadiusInt(radius) == AsIsize(radius + Half)

\* The scan of fill_radius with inclusive upper ends (mutant of ScanCells).
ScanCellsInclusive(explosion_x, explosion_y, radius_int) ==
    BoxCells(explosion_x - radius_int, explosion_y - radius_int,
             2 * radius_int + 1, 2 * radius_int + 1)

\* fill_radius: the cells its two nested ranges visit, in order:
\* (explosion_x - radius_int)..(explosion_x + radius_int), same for y.
ScanCells(explosion_x, explosion_y, radius_int) ==
    BoxCells(explosion_x - radius_int, explosion_y - radius_int,
             2 * radius_int, 2 * radius_int)

\* The two `continue`s of fill_radius dropped (mutant).
SkipCellNever(w, x, y) == FALSE

\* fill_radius, lines 83 and 87: the cell is outside the grid and skipped.
SkipCell(w, x, y) == x < 0 \/ x >= w.width \/ y < 0 \/ y >= w.height

\* A strict comparison in place of `distance <= radius` (mutant).
WithinRadiusStrict(x, y, explosion_x, explosion_y, radius) ==
    /\ radius >= 0
    /\ ((x - explosion_x) * (x - explosion_x)
         + (y - explosion_y) * (y - explosion_y)) * FP * FP < radius * radius

\* The distance test dropped: every visited cell is written (mutant).
WithinRadiusAlways(x, y, explosion_x, explosion_y, radius) == TRUE

\* fill_radius: pos.distance(explosion_pos) <= radius
WithinRadius(x, y, explosion_x, explosion_y, radius) ==
    /\ radius >= 0
    /\ ((x - explosion_x) * (x - explosion_x)
         + (y - explosion_y) * (y - explosion_y)) * FP * FP <= radius * radius

RECURSIVE FillLoop(_, _, _, _, _, _, _)
\* The body of fill_radius's loops from the i-th visited cell on; a failed
\* set aborts it.
FillLoop(res, cells, i, explosion_x, explosion_y, radius, tile) ==
    IF i > Len(cells) \/ ~res.ok
    THEN res
    ELSE LET x == cells[i][1]
             y == cells[i][2]
             next == IF SkipCell(res.world, x, y)
                     THEN res
                     ELSE IF WithinRadius(x, y, explosion_x, explosion_y, radius)
                          THEN Set(res.world, x, y, tile)
                          ELSE res
         IN  FillLoop(next, cells, i + 1, explosion_x, explosion_y, radius, tile)

\* World::fill_radius
FillRadius(w, explosion_x, explosion_y, radius, tile) ==
    FillLoop([ok |-> TRUE, world |-> w],
             ScanCells(explosion_x, explosion_y, RadiusInt(radius)),
             1, explosion_x, explosion_y, radius, tile)

\* `v as usize` of an f32 v: truncation, with negatives saturating to 0.
AsUsize(n) == IF n <= 0 THEN 0 ELSE n \div FP

Min(a, b) == IF a <= b THEN a ELSE b

\* The cells set without capping the column at the grid's height (mutant).
GenCellsUncapped(width, height, sums) ==
    LET column(x) == [y \in 1 .. AsUsize(sums[x + 1]) |-> <<x, y - 1>>]
        RECURSIVE upTo(_)
        upTo(x) == IF x < 0 THEN <<>> ELSE upTo(x - 1) \o column(x)
    IN  upTo(width - 1)

\* generate_world: the cells its loops set, in order.  sums[x + 1] is the
\* f32 sum of the waves at column x.
GenCells(width, height, sums) ==
    LET column(x) ==
            [y \in 1 .. Min(height, AsUsize(sums[x + 1])) |-> <<x, y - 1>>]
        RECURSIVE upTo(_)
        upTo(x) == IF x < 0 THEN <<>> ELSE upTo(x - 1) \o column(x)
    IN  upTo(width - 1)

RECURSIVE GenLoop(_, _, _)
\* The body of generate_world's loops from the i-th cell on.
GenLoop(res, cells, i) ==
    IF i > Len(cells) \/ ~res.ok
    THEN res
    ELSE GenLoop(Set(res.world, cells[i][1], cells[i][2], Dirt), cells, i + 1)

\* world_gen::generate_world, with the sum of the waves per column as input
\* (the sines themselves are not modelled).
GenerateWorld(width, height, sums) ==
    GenLoop([ok |-> TRUE, world |-> New(width, height)],
            GenCells(width, height, sums), 1)

-----------------------------------------------------------------------------
(* math.rs and physics.rs: vectors, lines, the collision test *)

ZERO == <<0, 0>>

VAdd(a, b) == <<a[1] + b[1], a[2] + b[2]>>
VSub(a, b) == <<a[1] - b[1], a[2] - b[2]>>
VAbs(a) == <<Abs(a[1]), Abs(a[2])>>

\* The square of Vec2::length, in units of 1/FP^2: the key both min_by_key
\* and max_by_key are called with orders vectors as its square does.
LengthSq(v) == v[1] * v[1] + v[2] * v[2]

\* a * b and a / b of two f32 in fixed point.
Mul(a, b) == (a * b) \div FP
Div(a, b) == (a * FP) \div b

\* math::min_by_key(a, b, |v| v.length()): Less | Equal | None => a
MinByKey(a, b) == IF LengthSq(a) <= LengthSq(b) THEN a ELSE b

\* max_by_key giving b on Equal (mutant).
MaxByKeyLast(a, b) == IF LengthSq(a) > LengthSq(b) THEN a ELSE b

\* max_by_key replaced by a sum of the two vectors (mutant).
MaxByKeySum(a, b) == VAdd(a, b)

\* math::max_by_key(a, b, |v| v.length()): Greater | Equal | None => a
MaxByKey(a, b) == IF LengthSq(a) >= LengthSq(b) THEN a ELSE b

\* The parameter test of vector_line_point without the endpoint clamp
\* (mutant: the projection on the infinite line is always taken).
ClampedNever(num, den) == FALSE

\* vector_line_point, line 17: t <= 0.0 || t >= 1.0, with t = num / den and
\* den > 0.
Clamped(num, den) == num <= 0 \/ num >= den

\* math::vector_line_point
VectorLinePoint(line, point) ==
    LET vec_origin_point == point
        vec_line_end_point == VSub(point, line)
        num == line[1] * point[1] + line[2] * point[2]
        den == line[1] * line[1] + line[2] * line[2]
    IN  IF line = ZERO
        THEN vec_origin_point
        ELSE IF Clamped(num, den)
             THEN MinByKey(vec_origin_point, vec_line_end_point)
             ELSE <<point[1] - ((line[1] * num) \div den),
                    point[2] - ((line[2] * num) \div den)>>

\* Rect::from_center_size
FromCenterSize(origin, size) ==
    [min |-> <<origin[1] - size[1] \div 2, origin[2] - size[2] \div 2>>,
     max |-> <<origin[1] + size[1] \div 2, origin[2] + size[2] \div 2>>]

\* Rect::center and Rect::half_size
RectCenter(rect) ==
    <<(rect.min[1] + rect.max[1]) \div 2, (rect.min[2] + rect.max[2]) \div 2>>
RectHalfSize(rect) ==
    <<(rect.max[1] - rect.min[1]) \div 2, (rect.max[2] - rect.min[2]) \div 2>>

\* Line::dir, and Vec2::perp of it
LineDir(line) == VSub(line.end, line.start)
Perp(v) == <<-v[2], v[1]>>

None == [some |-> FALSE, v |-> ZERO]
Some(v) == [some |-> TRUE, v |-> v]

\* The test of collide_rect with non-strict comparisons (mutant).
DeltaCollidesWeak(delta) == delta[1] >= 0 /\ delta[2] >= 0

\* collide_rect, line 131: delta.x > 0.0 && delta.y > 0.0
DeltaCollides(delta) == delta[1] > 0 /\ delta[2] > 0

\* The factor taken from the other component of delta (mutant).
CorrectionFactorByX(delta, perp) ==
    IF perp[1] = 0 THEN Div(delta[1], perp[2])
    ELSE IF perp[2] = 0 THEN Div(delta[2], perp[1])
    ELSE Min(Div(delta[1], perp[1]), Div(delta[2], perp[2]))

\* collide_rect, lines 134-138: the factor the perpendicular is scaled by.
CorrectionFactor(delta, perp) ==
    IF perp[1] = 0 THEN Div(delta[2], perp[2])
    ELSE IF perp[2] = 0 THEN Div(delta[1], perp[1])
    ELSE Min(Div(delta[1], perp[1]), Div(delta[2], perp[2]))

\* Line::collide_rect
CollideRect(line, rect) ==
    LET rect_center == RectCenter(rect)
        distance_vector ==
            VectorLinePoint(VSub(line.end, line.start),
                            VSub(rect_center, line.start))
        delta == VSub(RectHalfSize(rect), VAbs(distance_vector))
    IN  IF DeltaCollides(delta)
        THEN LET perp == Perp(LineDir(line))
                 factor == CorrectionFactor(delta, perp)
             IN  Some(<<Mul(factor, perp[1]), Mul(factor, perp[2])>>)
        ELSE None

\* physics::get_tile_lines: the top edge of tile (x, y)
GetTileLines(x, y) ==
    << [start |-> <<AsF32(x), AsF32(y) + FP>>,
        end |-> <<AsF32(x) + FP, AsF32(y) + FP>>] >>

RECURSIVE CollideLines(_, _, _, _)
\* collide_with_world, lines 99-104: the lines of one tile folded into
\* max_correction.
CollideLines(max_correction, lines, i, collider_rect) ==
    IF i > Len(lines)
    THEN max_correction
    ELSE LET c == CollideRect(lines[i], collider_rect)
         IN  CollideLines(IF c.some THEN MaxByKey(max_correction, c.v)
                                    ELSE max_correction,
                          lines, i + 1, collider_rect)

RECURSIVE CollideTiles(_, _, _, _)
\* collide_with_world, lines 93-105: the loop over possible_collisions.
CollideTiles(max_correction, tiles, i, collider_rect) ==
    IF i > Len(tiles)
    THEN max_correction
    ELSE LET world_tile == tiles[i]
         IN  CollideTiles(
                 IF ~HasCollider(world_tile.tile)
                 THEN max_correction
                 ELSE CollideLines(max_correction,
                                   GetTileLines(world_tile.pos[1],
                                                world_tile.pos[2]),
                                   1, collider_rect),
                 tiles, i + 1, collider_rect)

\* collide_with_world, the body of its loop for one entity: the value of
\* intersection.correction after it.
CollideEntity(w, translation, scale, correction) ==
    LET collider_rect == FromCenterSize(translation, scale)
        max_correction ==
            CollideTiles(ZERO, GetRenderedInRect(w, collider_rect), 1,
                         collider_rect)
    IN  IF max_correction # ZERO THEN max_correction ELSE correction

-----------------------------------------------------------------------------
(* physics.rs and debug_plugin.rs: the components and the systems *)

Entities == {"tank", "box"}

\* Time<Fixed>::delta_seconds() is 1 / TimestepHz (the engine's default).
TimestepHz == 64
\* debug_plugin::move_box: motion_vec *= 10.0
MoveSpeed == 10
\* debug_plugin::let_box_fall: delta_seconds * 4.0 * TILE_SIZE
FallSpeed == 4

\* WorldTransform::default(), Intersection::default(), Rigidbody::default()
DefaultWorldTransform == [translation |-> ZERO, tile_position |-> ZERO]
DefaultCorrection == ZERO
DefaultMotion == ZERO

\* PhysicsPlugin::build: the systems of FixedPostUpdate, chained group by
\* group; the systems of one group are not ordered among themselves.
\* Mutant: the world transforms are refreshed before the motion is applied.
ChainRefreshFirst ==
    << {"set_world_transform", "reset_intersections"}, {"apply_motion"},
       {"collide_with_world"}, {"apply_corrections"} >>

\* Mutant: the intersections are reset after the detection.
ChainResetAfterDetection ==
    << {"apply_motion"}, {"set_world_transform"}, {"collide_with_world"},
       {"reset_intersections"}, {"apply_corrections"} >>

\* Mutant: the corrections are applied at the head of the tick.
ChainApplyFirst ==
    << {"apply_corrections"}, {"apply_motion"},
       {"set_world_transform", "reset_intersections"},
       {"collide_with_world"} >>

Chain ==
    << {"apply_motion"},
       {"set_world_transform", "reset_intersections"},
       {"collide_with_world"},
       {"apply_corrections"} >>

\* System s of FixedPostUpdate may run now.
MayRun(s) ==
    /\ ~panicked
    /\ sched = "FixedPostUpdate"
    /\ stage \in 1 .. Len(Chain)
    /\ s \in Chain[stage] \ ran

\* System s has run: the group goes on, then the chain, then the tick ends.
HasRun(s) ==
    IF ran \cup {s} # Chain[stage]
    THEN /\ ran' = ran \cup {s}
         /\ UNCHANGED <<sched, stage, tick>>
    ELSE /\ ran' = {}
         /\ IF stage < Len(Chain)
            THEN /\ stage' = stage + 1
                 /\ UNCHANGED <<sched, tick>>
            ELSE /\ stage' = 0
                 /\ sched' = "Update"
                 /\ tick' = tick + 1

\* debug_plugin::move_box (Update): the arrow keys held give every body its
\* motion.  dir is (right - left, up - down).
MoveBox ==
    /\ ~panicked
    /\ sched = "Update"
    /\ tick < MaxTicks
    /\ \E dir \in {-1, 0, 1} \X {-1, 0, 1} :
          rigidbody' = [e \in Entities |->
                          <<AsF32(dir[1]) * MoveSpeed, AsF32(dir[2]) * MoveSpeed>>]
    /\ sched' = "FixedUpdate"
    /\ UNCHANGED <<gridVars, transform, world_transform, intersection, stage,
                   ran, visited, tick, computed_in, applied, life, moved>>

\* debug_plugin::let_box_fall (FixedUpdate)
LetBoxFall ==
    /\ ~panicked
    /\ sched = "FixedUpdate"
    /\ transform' = [e \in Entities |->
          [transform[e] EXCEPT !.translation[2] =
              @ - (AsF32(FallSpeed) * TILE_SIZE) \div TimestepHz]]
    /\ sched' = "FixedPostUpdate"
    /\ stage' = 1
    /\ UNCHANGED <<gridVars, rigidbody, world_transform, intersection, ran,
                   visited, tick, computed_in, applied, life, moved>>

\* The position set to the step instead of advanced by it (mutant).
ApplyMotionToAssigned(translation, motion) ==
    << (motion[1] * TILE_SIZE) \div TimestepHz,
       (motion[2] * TILE_SIZE) \div TimestepHz >>

\* apply_motion, lines 61-62: the translation of one entity after it.
ApplyMotionTo(translation, motion) ==
    << translation[1] + (motion[1] * TILE_SIZE) \div TimestepHz,
       translation[2] + (motion[2] * TILE_SIZE) \div TimestepHz >>

\* apply_corrections, lines 68-72: the translation of one entity after it.
ApplyCorrectionTo(translation, correction) ==
    IF correction = ZERO
    THEN translation
    ELSE << translation[1] + correction[1] * TILE_SIZE,
            translation[2] + correction[2] * TILE_SIZE >>

\* physics::apply_motion
ApplyMotion ==
    /\ MayRun("apply_motion")
    /\ transform' = [e \in Entities |->
          [transform[e] EXCEPT
              !.translation = ApplyMotionTo(@, rigidbody[e])]]
    /\ moved' = [e \in Entities |->
          [at |-> tick,
           translation |-> ApplyMotionTo(transform[e].translation,
                                         rigidbody[e])]]
    /\ HasRun("apply_motion")
    /\ UNCHANGED <<gridVars, rigidbody, world_transform, intersection,
                   visited, computed_in, applied, life>>

\* System s, iterating its query, has dealt with entity e: it goes on with
\* the entities left, or has run.
VisitEntity(s, e) ==
    IF {x \in Entities : <<s, x>> \in visited} \cup {e} # Entities
    THEN /\ visited' = visited \cup {<<s, e>>}
         /\ UNCHANGED <<sched, stage, ran, tick>>
    ELSE /\ visited' = {p \in visited : p[1] # s}
         /\ HasRun(s)

\* The world position computed from the position and the stored correction
\* (mutant: set_world_transform reads what reset_intersections writes).
WorldPosCorrected(e) ==
    << (transform[e].translation[1] + intersection[e][1] * TILE_SIZE)
           \div TILE_SIZE,
       (transform[e].translation[2] + intersection[e][2] * TILE_SIZE)
           \div TILE_SIZE >>

\* set_world_transform, lines 50-51: world_pos of entity e
WorldPos(e) ==
    << transform[e].translation[1] \div TILE_SIZE,
       transform[e].translation[2] \div TILE_SIZE >>

\* physics::set_world_transform, one entity of its query at a time: it runs
\* in parallel with reset_intersections.
SetWorldTransform ==
    /\ MayRun("set_world_transform")
    /\ \E e \in Entities :
          /\ <<"set_world_transform", e>> \notin visited
          /\ world_transform' = [world_transform EXCEPT ![e] =
                [translation |-> WorldPos(e),
                 tile_position |-> <<AsIsize(WorldPos(e)[1]),
                                     AsIsize(WorldPos(e)[2])>>]]
          /\ VisitEntity("set_world_transform", e)
    /\ UNCHANGED <<gridVars, transform, rigidbody, intersection, computed_in,
                   applied, life, moved>>

\* physics::reset_intersections, one entity of its query at a time
ResetIntersections ==
    /\ MayRun("reset_intersections")
    /\ \E e \in Entities :
          /\ <<"reset_intersections", e>> \notin visited
          /\ intersection' = [intersection EXCEPT ![e] = DefaultCorrection]
          /\ life' = [life EXCEPT ![e] =
                [life[e] EXCEPT
                    !.dropped = @ \/ (life[e].stored /\ life[e].adds = 0),
                    !.stored = FALSE,
                    !.adds = 0]]
          /\ VisitEntity("reset_intersections", e)
    /\ UNCHANGED <<gridVars, transform, rigidbody, world_transform, computed_in,
                   applied, moved>>

\* physics::collide_with_world
CollideWithWorld ==
    /\ MayRun("collide_with_world")
    /\ intersection' = [e \in Entities |->
          CollideEntity(world, world_transform[e].translation,
                        transform[e].scale, intersection[e])]
    /\ computed_in' = [e \in Entities |->
          IF CollideEntity(world, world_transform[e].translation,
                           transform[e].scale, ZERO) # ZERO
          THEN tick
          ELSE computed_in[e]]
    /\ life' = [e \in Entities |->
          IF CollideEntity(world, world_transform[e].translation,
                           transform[e].scale, ZERO) # ZERO
          THEN [stored |-> TRUE,
                writes |-> IF computed_in[e] = tick
                           THEN life[e].writes + 1 ELSE 1,
                adds |-> 0,
                dropped |-> life[e].dropped
                              \/ (life[e].stored /\ life[e].adds = 0)]
          ELSE life[e]]
    /\ HasRun("collide_with_world")
    /\ UNCHANGED <<gridVars, transform, rigidbody, world_transform, visited,
                   applied, moved>>

\* physics::apply_corrections
ApplyCorrections ==
    /\ MayRun("apply_corrections")
    /\ transform' = [e \in Entities |->
          [transform[e] EXCEPT
              !.translation = ApplyCorrectionTo(@, intersection[e])]]
    /\ applied' = [e \in Entities |->
          IF intersection[e] = ZERO
          THEN applied[e]
          ELSE [of |-> computed_in[e], at |-> tick]]
    /\ life' = [e \in Entities |->
          IF intersection[e] = ZERO
          THEN life[e]
          ELSE [life[e] EXCEPT !.adds = @ + 1]]
    /\ HasRun("apply_corrections")
    /\ UNCHANGED <<gridVars, rigidbody, world_transform, intersection,
                   visited, computed_in, moved>>

\* The sums of the waves per column the terrain is generated from.
Terrains == { <<2 * FP, FP, FP>>, <<FP, FP + Half, 0>> }

\* The entities as spawned: position in render space, and size.
Spawns ==
    { [translation |-> <<AsF32(12), AsF32(12)>>, scale |-> <<FP, FP>>],
      [translation |-> <<AsF32(10), AsF32(16)>>, scale |-> <<FP, 2 * FP>>],
      [translation |-> <<AsF32(20), AsF32(14)>>, scale |-> <<FP, FP>>] }

PhysicsIdle ==
    /\ rigidbody = [e \in Entities |-> DefaultMotion]
    /\ world_transform = [e \in Entities |-> DefaultWorldTransform]
    /\ intersection = [e \in Entities |-> DefaultCorrection]
    /\ sched = "Update"
    /\ stage = 0
    /\ ran = {}
    /\ visited = {}
    /\ tick = 0
    /\ computed_in = [e \in Entities |-> -1]
    /\ applied = [e \in Entities |-> [of |-> -1, at |-> -1]]
    /\ life = [e \in Entities |->
          [stored |-> FALSE, writes |-> 0, adds |-> 0, dropped |-> FALSE]]
    /\ moved = [e \in Entities |-> [at |-> -1, translation |-> ZERO]]

Init ==
    /\ \E sums \in Terrains :
          world = GenerateWorld(Len(sums), TerrainSide, sums).world
    /\ panicked = FALSE
    /\ call = [op |-> "none"]
    /\ transform \in [Entities -> Spawns]
    /\ PhysicsIdle

Next ==
    \/ MoveBox
    \/ LetBoxFall
    \/ ApplyMotion
    \/ SetWorldTransform
    \/ ResetIntersections
    \/ CollideWithWorld
    \/ ApplyCorrections

Spec == Init /\ [][Next]_vars

-----------------------------------------------------------------------------
(* The grid's interface, called by the editing and rendering collaborators *)

NoCall == [op |-> "none"]

\* Coordinates handed to the grid: every cell and one step past each border.
CoordsX(w) == -1 .. w.width
CoordsY(w) == -1 .. w.height

\* Brush sizes (the power of debug_plugin's WorldAction, an f32).
Radii == {Half, FP, FP + Half, 2 * FP}

\* Rectangles handed to get_rendered_in_rect: corners on half units.
RectMins(n) == {k * Half : k \in -3 .. (2 * n + 1)}
RectSizes == {FP, FP + Half}

\* Wave sums generate_world is called with: negative, zero, fractional,
\* and beyond the height of every grid of the model.
GenSums == {-Half, 0, Half, FP + Half, AsF32(MaxDim) + FP}

\* The grid as constructed: World::new, or world_gen::generate_world.
GridInit ==
    /\ \E width \in 1 .. MaxDim, height \in 1 .. MaxDim :
          /\ width * height <= MaxCells
          /\ \/ /\ world = New(width, height)
                /\ panicked = FALSE
                /\ call = NoCall
             \/ \E sums \in [1 .. width -> GenSums] :
                   LET r == GenerateWorld(width, height, sums)
                   IN  /\ world = r.world
                       /\ panicked = ~r.ok
                       /\ call = [op |-> "generate", width |-> width,
                                  height |-> height, sums |-> sums]
    /\ transform = [e \in Entities |-> [translation |-> ZERO, scale |-> <<FP, FP>>]]
    /\ PhysicsIdle

Ready == call.op = "none" /\ ~panicked

DoSet ==
    /\ Ready
    /\ \E x \in CoordsX(world), y \in CoordsY(world), tile \in WorldTile :
          LET r == Set(world, x, y, tile)
          IN  /\ world' = r.world
              /\ panicked' = ~r.ok
              /\ call' = [op |-> "set", x |-> x, y |-> y, tile |-> tile,
                          prev |-> world]
    /\ UNCHANGED physVars

DoGet ==
    /\ Ready
    /\ \E x \in CoordsX(world), y \in CoordsY(world) :
          LET r == Get(world, x, y)
          IN  /\ panicked' = ~r.ok
              /\ call' = [op |-> "get", x |-> x, y |-> y, prev |-> world,
                          ret |-> r.tile]
    /\ UNCHANGED <<world, physVars>>

DoGetRendered ==
    /\ Ready
    /\ \E x \in CoordsX(world), y \in CoordsY(world) :
          call' = [op |-> "get_rendered", x |-> x, y |-> y, prev |-> world,
                   ret |-> GetRendered(world, x, y)]
    /\ UNCHANGED <<world, panicked, physVars>>

DoFillRadius ==
    /\ Ready
    /\ \E x \in CoordsX(world), y \in CoordsY(world), radius \in Radii,
          tile \in WorldTile :
          LET r == FillRadius(world, x, y, radius, tile)
          IN  /\ world' = r.world
              /\ panicked' = ~r.ok
              /\ call' = [op |-> "fill_radius", x |-> x, y |-> y,
                          radius |-> radius, tile |-> tile, prev |-> world]
    /\ UNCHANGED physVars

DoGetRenderedInRect ==
    /\ Ready
    /\ \E minx \in RectMins(world.width), miny \in RectMins(world.height),
          sx \in RectSizes, sy \in RectSizes :
          LET rect == [min |-> <<minx, miny>>, max |-> <<minx + sx, miny + sy>>]
          IN  call' = [op |-> "get_rendered_in_rect", rect |-> rect,
                       prev |-> world,
                       ret |-> GetRenderedInRect(world, rect)]
    /\ UNCHANGED <<world, panicked, physVars>>

\* The caller has taken the result and goes on.
Return ==
    /\ call.op # "none"
    /\ ~panicked
    /\ call' = NoCall
    /\ UNCHANGED <<world, panicked, physVars>>

GridNext ==
    \/ DoSet
    \/ DoGet
    \/ DoGetRendered
    \/ DoFillRadius
    \/ DoGetRenderedInRect
    \/ Return

SpecGrid == GridInit /\ [][GridNext]_vars

-----------------------------------------------------------------------------
(* Notions the properties are stated with *)

\* (x, y) is a cell of the grid.
InGrid(w, x, y) == 0 <= x /\ x < w.width /\ 0 <= y /\ y < w.height

\* The cells of the grid.
Cells(w) == (0 .. (w.width - 1)) \X (0 .. (w.height - 1))

-----------------------------------------------------------------------------
(* The collision functions, called on enumerated arguments *)

\* Rectangle centres: every quarter unit from one unit left of (below) the
\* terrain to one unit right of (above) it.
Centres == {k * (FP \div 4) : k \in -4 .. (4 * TerrainSide + 4)}
\* Rectangle sides (Transform.scale of the collider).
Sides == {FP, FP + Half, 2 * FP}
\* Vectors max_by_key is called on.
SmallVecs == {<<x * Half, y * Half>> : x \in -2 .. 2, y \in -2 .. 2}
\* Column sums the terrains are generated from.
ColumnSums == {0, FP, 2 * FP}

CollideInit ==
    /\ \E sums \in [1 .. TerrainSide -> ColumnSums] :
          world = GenerateWorld(TerrainSide, TerrainSide, sums).world
    /\ panicked = FALSE
    /\ call = NoCall
    /\ transform = [e \in Entities |-> [translation |-> ZERO, scale |-> <<FP, FP>>]]
    /\ PhysicsIdle

\* Line::collide_rect on the line of a tile and a rectangle
DoCollideRect ==
    /\ Ready
    /\ \E tile \in {<<0, 0>>, <<1, 1>>}, cx \in Centres, cy \in Centres,
          sx \in Sides, sy \in Sides :
          LET line == GetTileLines(tile[1], tile[2])[1]
              rect == FromCenterSize(<<cx, cy>>, <<sx, sy>>)
          IN  call' = [op |-> "collide_rect", line |-> line, rect |-> rect,
                       ret |-> CollideRect(line, rect)]
    /\ UNCHANGED <<world, panicked, physVars>>

\* The body of collide_with_world for an entity whose Intersection
\* reset_intersections has just reset
DoCollideWithWorld ==
    /\ Ready
    /\ \E cx \in Centres, cy \in Centres, sx \in Sides, sy \in Sides :
          call' = [op |-> "collide_with_world", translation |-> <<cx, cy>>,
                   scale |-> <<sx, sy>>,
                   ret |-> CollideEntity(world, <<cx, cy>>, <<sx, sy>>,
                                         DefaultCorrection)]
    /\ UNCHANGED <<world, panicked, physVars>>

\* math::max_by_key(a, b, |v| v.length())
DoMaxByKey ==
    /\ Ready
    /\ \E a \in SmallVecs, b \in SmallVecs :
          call' = [op |-> "max_by_key", a |-> a, b |-> b, ret |-> MaxByKey(a, b)]
    /\ UNCHANGED <<world, panicked, physVars>>

CollideNext ==
    \/ DoCollideRect
    \/ DoCollideWithWorld
    \/ DoMaxByKey
    \/ Return

SpecCollide == CollideInit /\ [][CollideNext]_vars

-----------------------------------------------------------------------------
(* The two steps of the integrator, each run twice on the same inputs *)

\* Motions move_box gives a body, and positions in render space.
Motions ==
    {<<AsF32(x) * MoveSpeed, AsF32(y) * MoveSpeed>> : x, y \in {-1, 0, 1}}
Positions == {<<AsF32(x), AsF32(y)>> : x \in {0, 12}, y \in {-4, 16}}

\* apply_motion run, and run again with the same motion and time step
DoApplyMotionTwice ==
    /\ Ready
    /\ \E translation \in Positions, motion \in Motions :
          LET once == ApplyMotionTo(translation, motion)
          IN  call' = [op |-> "apply_motion", translation |-> translation,
                       input |-> motion, once |-> once,
                       twice |-> ApplyMotionTo(once, motion)]
    /\ UNCHANGED <<world, panicked, physVars>>

\* apply_corrections run, and run again with the same stored correction
DoApplyCorrectionsTwice ==
    /\ Ready
    /\ \E translation \in Positions, correction \in SmallVecs :
          LET once == ApplyCorrectionTo(translation, correction)
          IN  call' = [op |-> "apply_corrections",
                       translation |-> translation, input |-> correction,
                       once |-> once,
                       twice |-> ApplyCorrectionTo(once, correction)]
    /\ UNCHANGED <<world, panicked, physVars>>

StepNext ==
    \/ DoApplyMotionTwice
    \/ DoApplyCorrectionsTwice
    \/ Return

SpecStep == Init /\ [][StepNext]_vars

-----------------------------------------------------------------------------
(* Properties of the physics pipeline, checked under Spec *)

\* C1 (as claimed): a correction computed by the detection of tick N is
\* first added to the position by the correction phase of tick N + 1.
C1_OneTickLatency ==
    \A e \in Entities :
        applied[e].at # -1 => applied[e].at = applied[e].of + 1

\* C1 (amended): a correction computed by the detection of tick N is added
\* to the position by the correction phase of the same tick N: whenever
\* apply_corrections is about to run, a stored non-zero correction was
\* computed in the current tick, and every correction ever added was added
\* in the tick that computed it.
C1_SameTickCorrection ==
    \A e \in Entities :
        /\ (MayRun("apply_corrections") /\ intersection[e] # ZERO)
              => computed_in[e] = tick
        /\ applied[e].at # -1 => applied[e].at = applied[e].of

\* C1's case: in the second tick a correction computed in that tick has
\* been added to the position.
C1_Witness ==
    \E e \in Entities :
        /\ applied[e] = [of |-> 1, at |-> 1]
        /\ tick = 2
        /\ intersection[e] # ZERO

\* C13: in every tick the Intersection of every entity is the zero vector
\* when collide_with_world starts; collide_with_world writes it at most once
\* per tick; and every correction written is added to the position exactly
\* once: never more than once, and never erased or overwritten before it
\* was added.
C13_IntersectionLifecycle ==
    \A e \in Entities :
        /\ MayRun("collide_with_world") =>
               (intersection[e] = ZERO /\ ~life[e].stored)
        /\ life[e].writes <= 1
        /\ life[e].adds <= 1
        /\ ~life[e].dropped

\* C13's case: after a correction of an earlier tick was reset, a tick has
\* ended in which a new correction was written and added once.
C13_Witness ==
    \E e \in Entities :
        /\ sched = "Update"
        /\ applied[e].at >= 1
        /\ computed_in[e] = tick - 1
        /\ life[e] = [stored |-> TRUE, writes |-> 1, adds |-> 1,
                      dropped |-> FALSE]

\* C16: in every tick, when collide_with_world runs, apply_motion has run
\* in that tick and the WorldTransform.translation of every entity is the
\* position that run left, divided by the tile size (and tile_position its
\* truncation).
C16_DetectionSeesCurrentTick ==
    MayRun("collide_with_world") =>
        \A e \in Entities :
            LET world_pos == <<moved[e].translation[1] \div TILE_SIZE,
                               moved[e].translation[2] \div TILE_SIZE>>
            IN  /\ moved[e].at = tick
                /\ transform[e].translation = moved[e].translation
                /\ world_transform[e].translation = world_pos
                /\ world_transform[e].tile_position
                       = <<AsIsize(world_pos[1]), AsIsize(world_pos[2])>>

\* C16's case: in a later tick detection is about to run for an entity that
\* this tick's apply_motion has moved sideways.
C16_Witness ==
    /\ MayRun("collide_with_world")
    /\ tick >= 1
    /\ \E e \in Entities :
          /\ rigidbody[e][1] # 0
          /\ moved[e].at = tick
          /\ world_transform[e].translation[1] * TILE_SIZE
                 = moved[e].translation[1]

\* System s has dealt with entity e in the group that is running.
Visited(s, e) == s \in ran \/ <<s, e>> \in visited

\* The group of set_world_transform and reset_intersections is running.
InGroup ==
    /\ sched = "FixedPostUpdate"
    /\ stage \in 1 .. Len(Chain)
    /\ {"set_world_transform", "reset_intersections"} \subseteq Chain[stage]

\* What set_world_transform makes of the position apply_motion left.
Refreshed(e) ==
    LET world_pos == <<moved[e].translation[1] \div TILE_SIZE,
                       moved[e].translation[2] \div TILE_SIZE>>
    IN  [translation |-> world_pos,
         tile_position |-> <<AsIsize(world_pos[1]), AsIsize(world_pos[2])>>]

\* C18: set_world_transform and reset_intersections commute.  However far
\* each of the two has got with the entities, neither has changed the
\* position, every WorldTransform set_world_transform has written is the one
\* it writes when it runs alone, and every Intersection reset_intersections
\* has written is zero; so when collide_with_world starts, the state is the
\* same whatever the order was.
C18_GroupCommutes ==
    \A e \in Entities :
        /\ InGroup =>
              /\ transform[e].translation = moved[e].translation
              /\ Visited("set_world_transform", e) =>
                     world_transform[e] = Refreshed(e)
              /\ Visited("reset_intersections", e) =>
                     intersection[e] = ZERO
        /\ MayRun("collide_with_world") =>
              /\ visited = {}
              /\ transform[e].translation = moved[e].translation
              /\ world_transform[e] = Refreshed(e)
              /\ intersection[e] = ZERO

\* C18's case: the two systems are interleaved: reset_intersections has
\* dealt with one entity that set_world_transform has not, and
\* set_world_transform with another, whose correction of the tick before
\* is still stored.
C18_Witness ==
    /\ InGroup
    /\ \E e1, e2 \in Entities :
          /\ e1 # e2
          /\ Visited("reset_intersections", e1)
          /\ ~Visited("set_world_transform", e1)
          /\ Visited("set_world_transform", e2)
          /\ ~Visited("reset_intersections", e2)
          /\ intersection[e2] # ZERO

-----------------------------------------------------------------------------
(* Properties of the integrator's steps, checked under SpecStep *)

\* C15 (as claimed): apply_motion and apply_corrections are idempotent: a
\* second run with the same motion, time step and stored correction leaves
\* the position where the first run left it.
C15_Idempotent ==
    call.op \in {"apply_motion", "apply_corrections"} =>
        call.twice = call.once

\* C15 (amended): apply_motion and apply_corrections accumulate: a second
\* run with the same inputs moves the position by the same step as the
\* first, so the position stays where the first run left it only when the
\* motion (the stored correction) is the zero vector.
C15_StepAccumulates ==
    call.op \in {"apply_motion", "apply_corrections"} =>
        /\ VSub(call.twice, call.once) = VSub(call.once, call.translation)
        /\ (call.twice = call.once) <=> (call.input = ZERO)

\* C15's case: apply_motion has run twice with a non-zero motion, and the
\* second run has moved the position again.
C15_Witness ==
    /\ call.op = "apply_motion"
    /\ call.input # ZERO
    /\ call.once # call.translation
    /\ call.twice # call.once

-----------------------------------------------------------------------------
(* Properties of the collision functions, checked under SpecCollide *)

\* The corrections collide_with_world computes for a rectangle, in the
\* order it computes them.
Corrections(w, rect) ==
    LET tiles == GetRenderedInRect(w, rect)
        hit(t) == /\ HasCollider(t.tile)
                  /\ CollideRect(GetTileLines(t.pos[1], t.pos[2])[1], rect).some
        hits == SelectSeq(tiles, hit)
    IN  [i \in 1 .. Len(hits) |->
            CollideRect(GetTileLines(hits[i].pos[1], hits[i].pos[2])[1], rect).v]

\* The first of the longest vectors of a non-empty sequence.
FirstLongest(cs) ==
    LET longest(i) == \A j \in 1 .. Len(cs) : LengthSq(cs[j]) <= LengthSq(cs[i])
        first == CHOOSE i \in 1 .. Len(cs) :
                    longest(i) /\ \A j \in 1 .. (i - 1) : ~longest(j)
    IN  cs[first]

\* C8: the Intersection collide_with_world stores is the one correction of
\* greatest length among those computed for the entity (not their sum), the
\* first computed among the longest; max_by_key gives its second argument
\* only when that is strictly longer.
C8_LargestCorrection ==
    /\ call.op = "collide_with_world" =>
          LET cs == Corrections(world,
                                FromCenterSize(call.translation, call.scale))
          IN  Len(cs) > 0 => call.ret = FirstLongest(cs)
    /\ call.op = "max_by_key" =>
          call.ret = IF LengthSq(call.b) > LengthSq(call.a)
                     THEN call.b ELSE call.a

\* C8's case: two corrections of different lengths were computed, the
\* shorter one first, and the longer one is stored.
C8_Witness ==
    /\ call.op = "collide_with_world"
    /\ LET cs == Corrections(world,
                             FromCenterSize(call.translation, call.scale))
       IN  /\ Len(cs) >= 2
           /\ \E i \in 2 .. Len(cs) : LengthSq(cs[i]) > LengthSq(cs[1])
           /\ call.ret = FirstLongest(cs)
           /\ call.ret # cs[1]

\* The vector from the point of a horizontal segment closest to point c
\* (the projection of c, clamped to the segment's ends) to c.
FromClosestPoint(line, c) ==
    LET px == IF c[1] < line.start[1] THEN line.start[1]
              ELSE IF c[1] > line.end[1] THEN line.end[1]
              ELSE c[1]
    IN  <<c[1] - px, c[2] - line.start[2]>>

\* delta = rect_half_size - |d| has both components strictly positive.
Overlaps(line, rect) ==
    LET d == FromClosestPoint(line, RectCenter(rect))
        half == RectHalfSize(rect)
    IN  half[1] - Abs(d[1]) > 0 /\ half[2] - Abs(d[2]) > 0

\* The top edges of the solid tiles of a grid.
SolidLines(w) ==
    {GetTileLines(c[1], c[2])[1] :
        c \in {c \in Cells(w) : HasCollider(Get(w, c[1], c[2]).tile)}}

\* C9: collide_rect returns a correction exactly when both components of
\* delta are strictly positive; and when no edge of the grid collides, the
\* entity's Intersection stays the zero vector.
C9_CollisionTest ==
    /\ call.op = "collide_rect" =>
          (call.ret.some <=> Overlaps(call.line, call.rect))
    /\ call.op = "collide_rect" => (~call.ret.some => call.ret.v = ZERO)
    /\ call.op = "collide_with_world" =>
          ((\A line \in SolidLines(world) :
                ~Overlaps(line, FromCenterSize(call.translation, call.scale)))
              => call.ret = ZERO)

\* C9's case: a rectangle whose centre lies beyond the end of the segment,
\* so that the closest point is the clamped one, collides.
C9_Witness ==
    /\ call.op = "collide_rect"
    /\ RectCenter(call.rect)[1] > call.line.end[1]
    /\ call.ret.some

\* rect moved by v
Translated(rect, v) == [min |-> VAdd(rect.min, v), max |-> VAdd(rect.max, v)]

\* C10 (as claimed): the rectangle moved by the correction collide_rect
\* returned no longer collides with the same segment.
C10_CorrectionClears ==
    (call.op = "collide_rect" /\ call.ret.some) =>
        ~CollideRect(call.line, Translated(call.rect, call.ret.v)).some

\* C11: every correction collide_rect reports for the top edge of a tile,
\* the segment (x, y + 1) - (x + 1, y + 1), is non-zero, has x component 0,
\* and has magnitude rect_half_size.y - |center.y - (y + 1)|.
C11_CorrectionValue ==
    (call.op = "collide_rect" /\ call.ret.some) =>
        LET half == RectHalfSize(call.rect)
            center == RectCenter(call.rect)
            edge_y == call.line.start[2]
        IN  /\ call.ret.v # ZERO
            /\ call.ret.v[1] = 0
            /\ Abs(call.ret.v[2]) = half[2] - Abs(center[2] - edge_y)

\* C11's case: a correction was reported for a rectangle whose centre is
\* not on the edge and whose overlap differs between the two axes.
C11_Witness ==
    /\ call.op = "collide_rect"
    /\ call.ret.some
    /\ RectCenter(call.rect)[2] # call.line.start[2]
    /\ call.ret.v[2] = RectHalfSize(call.rect)[2]
                          - Abs(RectCenter(call.rect)[2] - call.line.start[2])
    /\ call.ret.v[2] # RectHalfSize(call.rect)[1]

-----------------------------------------------------------------------------
(* Properties of the grid, checked under SpecGrid *)

\* The Euclidean distance from (x, y) to (cx, cy) is at most radius.
InDisc(x, y, cx, cy, radius) ==
    /\ radius >= 0
    /\ ((x - cx) * (x - cx) + (y - cy) * (y - cy)) * FP * FP <= radius * radius

\* C2 (as claimed): after fill_radius(cx, cy, r, T) every in-range cell at
\* Euclidean distance <= r from (cx, cy) holds T, and every in-range cell
\* farther away keeps the value it had before.
C2_DiscMembership ==
    call.op = "fill_radius" =>
        \A c \in Cells(world) :
            IF InDisc(c[1], c[2], call.x, call.y, call.radius)
            THEN Get(world, c[1], c[2]).tile = call.tile
            ELSE Get(world, c[1], c[2]).tile = Get(call.prev, c[1], c[2]).tile

\* C3: after set(x, y, t) on in-range (x, y), get(x, y) returns t and get of
\* every other in-range cell returns what it returned before the set.
C3_SetGetRoundTrip ==
    (call.op = "set" /\ InGrid(call.prev, call.x, call.y)) =>
        /\ ~panicked
        /\ Get(world, call.x, call.y) = [ok |-> TRUE, tile |-> call.tile]
        /\ \A c \in Cells(world) \ {<<call.x, call.y>>} :
              Get(world, c[1], c[2]) = Get(call.prev, c[1], c[2])

\* C3's case: an in-range set that changed the grid, with another cell solid.
C3_Witness ==
    /\ call.op = "set"
    /\ InGrid(call.prev, call.x, call.y)
    /\ world # call.prev
    /\ \E c \in Cells(world) \ {<<call.x, call.y>>} :
          Get(world, c[1], c[2]).tile = Dirt

\* C4: get never fails, and returns Air for every (x, y) outside the grid.
C4_BoundsDefault ==
    call.op = "get" =>
        /\ ~panicked
        /\ ~InGrid(call.prev, call.x, call.y) => call.ret = Air

\* C4's case: a get outside a grid that holds solid cells.
C4_Witness ==
    /\ call.op = "get"
    /\ ~InGrid(call.prev, call.x, call.y)
    /\ \E c \in Cells(world) : Get(world, c[1], c[2]).tile = Dirt
    /\ call.ret = Air

\* C5: set outside the grid fails its assertion and writes no cell.
C5_SetOutOfRangeAborts ==
    (call.op = "set" /\ ~InGrid(call.prev, call.x, call.y)) =>
        /\ panicked
        /\ world = call.prev

\* C5's case: a set of a solid tile at x = -1, y in range, has aborted.
C5_Witness ==
    /\ call.op = "set"
    /\ call.x = -1
    /\ call.y \in 0 .. (world.height - 1)
    /\ call.tile = Dirt
    /\ panicked

\* C6: fill_radius never trips the bounds assertion of set, wherever the
\* centre lies.
C6_FillRadiusNeverFails ==
    call.op = "fill_radius" => ~panicked

\* C6's case: a fill centred outside the grid that wrote cells.
C6_Witness ==
    /\ call.op = "fill_radius"
    /\ ~InGrid(call.prev, call.x, call.y)
    /\ world # call.prev
    /\ ~panicked

\* C12: after generate_world(width, height, waves) the cell (x, y) is solid
\* if and only if 0 <= y < min(height, H(x)), H(x) being the wave sum of
\* column x as a non-negative integer (0 for sums <= 0); the grid has the
\* dimensions asked for and no assertion has failed.
C12_ColumnFill ==
    call.op = "generate" =>
        /\ ~panicked
        /\ world.width = call.width /\ world.height = call.height
        /\ \A c \in Cells(world) :
              LET sum == call.sums[c[1] + 1]
                  H == IF sum <= 0 THEN 0 ELSE sum \div FP
              IN  (Get(world, c[1], c[2]).tile = Dirt)
                     <=> (c[2] < H /\ c[2] < call.height)

\* C12's case: a generated grid with a column higher than the grid, an empty
\* column, and a column filled in part.
C12_Witness ==
    /\ call.op = "generate"
    /\ \E x \in 1 .. call.width : call.sums[x] > AsF32(call.height)
    /\ \E x \in 1 .. call.width : call.sums[x] < 0
    /\ \E c \in Cells(world) :
          /\ Get(world, c[1], c[2]).tile = Dirt
          /\ c[2] + 1 < world.height
          /\ Get(world, c[1], c[2] + 1).tile = Air

\* C14: in every state reached from new or generate by set, fill_radius,
\* get, get_rendered and get_rendered_in_rect, the storage has exactly
\* width * height entries, no operation has changed width or height, and
\* coords_to_index maps the in-bounds coordinates one-to-one onto
\* 0 .. width * height - 1.
C14_GridShape ==
    LET index(c) == CoordsToIndex(world, c[1], c[2])
    IN  /\ DOMAIN world.data = 0 .. (world.width * world.height - 1)
        /\ call.op = "generate" =>
               (world.width = call.width /\ world.height = call.height)
        /\ call.op \notin {"none", "generate"} =>
               (world.width = call.prev.width
                   /\ world.height = call.prev.height)
        /\ \A c \in Cells(world) : index(c).ok
        /\ \A c1, c2 \in Cells(world) :
               index(c1).idx = index(c2).idx => c1 = c2
        /\ {index(c).idx : c \in Cells(world)}
               = 0 .. (world.width * world.height - 1)

\* C14's case: a grid that is not square has been written by fill_radius.
C14_Witness ==
    /\ call.op = "fill_radius"
    /\ world # call.prev
    /\ world.width >= 2 /\ world.height >= 2
    /\ world.width # world.height

\* (x, y) lies in the box fill_radius scans around (cx, cy): from
\* c - radius_int up to, not including, c + radius_int on both axes.
InScannedBox(x, y, cx, cy, radius) ==
    LET radius_int == RadiusInt(radius)
    IN  /\ cx - radius_int <= x /\ x < cx + radius_int
        /\ cy - radius_int <= y /\ y < cy + radius_int

\* C17: after fill_radius(cx, cy, r, T) every cell whose value differs from
\* before lies at Euclidean distance <= r from (cx, cy) and holds T; every
\* cell at distance > r, and every cell outside the scanned box, holds what
\* it held before.
C17_WritesInsideDisc ==
    call.op = "fill_radius" =>
        \A c \in Cells(world) :
            LET now == Get(world, c[1], c[2]).tile
                before == Get(call.prev, c[1], c[2]).tile
            IN  /\ now # before =>
                      (InDisc(c[1], c[2], call.x, call.y, call.radius)
                          /\ now = call.tile)
                /\ ~InDisc(c[1], c[2], call.x, call.y, call.radius) =>
                      now = before
                /\ ~InScannedBox(c[1], c[2], call.x, call.y, call.radius) =>
                      now = before

\* C17's case: fill_radius has written a cell, and has left alone a cell of
\* the scanned box that lies outside the disc and holds another tile.
C17_Witness ==
    /\ call.op = "fill_radius"
    /\ world # call.prev
    /\ \E c \in Cells(world) :
          /\ InScannedBox(c[1], c[2], call.x, call.y, call.radius)
          /\ ~InDisc(c[1], c[2], call.x, call.y, call.radius)
          /\ Get(world, c[1], c[2]).tile # call.tile

\* The unit square of cell (x, y) overlaps rect grown by 1.0 on every side.
OverlapsExpanded(x, y, rect) ==
    /\ AsF32(x) < rect.max[1] + FP
    /\ AsF32(x + 1) > rect.min[1] - FP
    /\ AsF32(y) < rect.max[2] + FP
    /\ AsF32(y + 1) > rect.min[2] - FP

\* C7 (as claimed): get_rendered_in_rect yields every in-bounds cell whose
\* unit square overlaps the rectangle grown by one unit on every side, no
\* out-of-bounds cell, and no cell twice.
C7_RectCoverage ==
    call.op = "get_rendered_in_rect" =>
        /\ \A c \in Cells(world) :
              OverlapsExpanded(c[1], c[2], call.rect) =>
                  \E i \in 1 .. Len(call.ret) : call.ret[i].pos = c
        /\ \A i \in 1 .. Len(call.ret) :
              InGrid(world, call.ret[i].pos[1], call.ret[i].pos[2])
        /\ \A i, j \in 1 .. Len(call.ret) :
              call.ret[i].pos = call.ret[j].pos => i = j

====
